---- MODULE Spec2Model ----
(***************************************************************************)
(* simple-tcp-chat-python: the length-prefixed framing of src/client.py    *)
(* and src/server.py, the per-connection handler thread, the listener's    *)
(* accept loop and the interactive client, over TCP byte streams.          *)
(*                                                                         *)
(* A text is a sequence of characters and a byte string is a sequence of   *)
(* bytes; both are written as sequences of one-token strings.  An ASCII    *)
(* character and its UTF-8 byte share a token; the non-ASCII character     *)
(* "U+E9" encodes to the two bytes "xC3" "xA9".                            *)
(***************************************************************************)
EXTENDS Integers, Sequences, FiniteSets, TLC

\* ------------------------------------------------------------------------
\* Bounds of the model
\* ------------------------------------------------------------------------

\* Width of the length header.  The source sets 64 (src/server.py:15,
\* src/client.py:12); the model scales the width down so that every byte
\* split of a header and payload lengths of 10^HEADER bytes are explored.
HEADER == 3

\* Number of client processes (and so of connections) of a run.
NumClients == 2

\* Number of lines the operators type in a run, all clients together.
MaxLines == 2

\* Number of reads of a run that return fewer bytes than were asked for and
\* had arrived (TCP may cut the stream anywhere).
MaxShortReads == 1

\* Number of failures of the environment in a run: a connection reset, an
\* operator's end of input, an error raised by listen, accept or the start
\* of a thread.
MaxFaults == 1

\* Longest of the short payloads of the framing runs (SpecCodec).
MaxCodecLen == 12

\* ------------------------------------------------------------------------
\* Configuration constants
\* ------------------------------------------------------------------------

\* The buffer size of the client's response read.
RECV_BUF == 2048

MSG_DISCONNECT == <<"!", "D", "i", "s", "c", "o", "n", "n", "e", "c", "t">>

\* The acknowledgment text of the handler, "Message received".
ACK_TEXT == <<"M", "e", "s", "s", "a", "g", "e", " ",
              "r", "e", "c", "e", "i", "v", "e", "d">>

\* ------------------------------------------------------------------------
\* Text, bytes and numbers
\* ------------------------------------------------------------------------

DigitChars == <<"0", "1", "2", "3", "4", "5", "6", "7", "8", "9">>

IsDigit(ch) == \E d \in 1..10 : DigitChars[d] = ch

DigitVal(ch) == (CHOOSE d \in 1..10 : DigitChars[d] = ch) - 1

\* The characters str.strip() and int() treat as white space.
IsSpace(ch) == ch \in {" ", "\t", "\n"}

Min(a, b) == IF a < b THEN a ELSE b

Take(s, k) == SubSeq(s, 1, k)

Drop(s, k) == SubSeq(s, k + 1, Len(s))

\* bytes * n: n copies; a count of zero or less gives the empty byte string.
Repeat(b, n) == IF n > 0 THEN [i \in 1..n |-> b] ELSE <<>>

\* str.encode('utf-8') of one character.
EncodeChar(ch) == IF ch = "U+E9" THEN <<"xC3", "xA9">> ELSE <<ch>>

\* A place of the encoding that holds a byte.
IsByte(b) == b # ""

\* str.encode(FORMAT): the UTF-8 bytes of a text, character by character.
\* Every character is given two places, the second one empty when the
\* character takes one byte, and the empty places are dropped.
Encode(text) ==
    SelectSeq([j \in 1..(2 * Len(text)) |->
                 IF j % 2 = 1
                 THEN EncodeChar(text[(j + 1) \div 2])[1]
                 ELSE IF Len(EncodeChar(text[j \div 2])) = 2
                 THEN EncodeChar(text[j \div 2])[2]
                 ELSE ""],
              IsByte)

DecodeError == [ok |-> FALSE, text |-> <<>>]

\* bytes.decode(FORMAT) of one ASCII byte, or of a byte that cannot stand
\* alone.
DecodeByte(b) ==
    IF b \in {"xC3", "xA9"} THEN DecodeError
    ELSE [ok |-> TRUE, text |-> <<b>>]

\* A byte that is not the continuation byte of a two-byte character.
NotContinuation(b) == b # "xA9"

\* bytes.decode(FORMAT): the text, or UnicodeDecodeError (ok = FALSE) on a
\* lead byte without its continuation byte or a stray continuation byte.
Decode(bytes) ==
    IF \A i \in 1..Len(bytes) :
          /\ bytes[i] = "xC3" => i < Len(bytes) /\ bytes[i + 1] = "xA9"
          /\ bytes[i] = "xA9" => i > 1 /\ bytes[i - 1] = "xC3"
    THEN [ok |-> TRUE,
          text |-> [i \in 1..Len(SelectSeq(bytes, NotContinuation)) |->
                      IF SelectSeq(bytes, NotContinuation)[i] = "xC3"
                      THEN "U+E9"
                      ELSE SelectSeq(bytes, NotContinuation)[i]]]
    ELSE DecodeError

RECURSIVE Str(_)
\* str(n) of a non-negative integer: its decimal digits.
Str(n) ==
    IF n < 10 THEN <<DigitChars[n + 1]>>
    ELSE Str(n \div 10) \o <<DigitChars[(n % 10) + 1]>>

\* The text without its leading white space.
LStrip(text) ==
    IF \A i \in 1..Len(text) : IsSpace(text[i]) THEN <<>>
    ELSE SubSeq(text,
                CHOOSE i \in 1..Len(text) :
                   /\ ~IsSpace(text[i])
                   /\ \A j \in 1..(i - 1) : IsSpace(text[j]),
                Len(text))

\* The text without its trailing white space.
RStrip(text) ==
    IF \A i \in 1..Len(text) : IsSpace(text[i]) THEN <<>>
    ELSE SubSeq(text, 1,
                CHOOSE i \in 1..Len(text) :
                   /\ ~IsSpace(text[i])
                   /\ \A j \in (i + 1)..Len(text) : IsSpace(text[j]))

\* The digits of an int() literal: digits, with single underscores allowed
\* between two digits.
IntBody(body) ==
    /\ body # <<>>
    /\ \A i \in 1..Len(body) :
          \/ IsDigit(body[i])
          \/ /\ body[i] = "_"
             /\ 1 < i /\ i < Len(body)
             /\ IsDigit(body[i - 1]) /\ IsDigit(body[i + 1])

RECURSIVE IntValue(_)
IntValue(body) ==
    IF body = <<>> THEN 0
    ELSE LET last == body[Len(body)]
             init == Take(body, Len(body) - 1)
         IN  IF last = "_" THEN IntValue(init)
             ELSE 10 * IntValue(init) + DigitVal(last)

\* int() of a text without white space around it: an optional sign, then
\* the digits; ValueError (ok = FALSE) otherwise.
ParseStripped(t) ==
    LET sgn  == IF t # <<>> /\ Head(t) \in {"+", "-"} THEN Head(t) ELSE ""
        body == IF sgn = "" THEN t ELSE Tail(t)
    IN  IF IntBody(body)
        THEN [ok |-> TRUE,
              val |-> IF sgn = "-" THEN 0 - IntValue(body) ELSE IntValue(body)]
        ELSE [ok |-> FALSE, val |-> 0]

\* int(text): white space stripped at both ends, then parsed (the stripped
\* text is computed once).
ParseInt(text) ==
    CHOOSE r \in { ParseStripped(t) : t \in {RStrip(LStrip(text))} } : TRUE

\* The header with the padding put before the digits (rjust for ljust).
send_length_rjust(data) ==
    CHOOSE header \in { Repeat(" ", HEADER - Len(digits)) \o digits :
                           digits \in { Encode(Str(n)) : n \in {Len(data)} } } :
       TRUE

\* client.py send(), steps 2 and 3: the length as decimal text, padded with
\* spaces by HEADER - len(send_length) (nothing when that is negative).  The
\* length and its digits are computed once.
send_length(data) ==
    CHOOSE header \in { digits \o Repeat(" ", HEADER - Len(digits)) :
                           digits \in { Encode(Str(n)) : n \in {Len(data)} } } :
       TRUE


\* ------------------------------------------------------------------------
\* The processes and the state
\* ------------------------------------------------------------------------

\* One connection per peer process; a connection is named by its peer.
Clients == 1..NumClients

\* What the operator may type at the prompt: nothing, text that reads like a
\* header, the disconnect command, a non-ASCII character.
Lines ==
    { <<>>, <<"0", " ">>, MSG_DISCONNECT, <<"U+E9">> }

\* What a peer that is not client.py may write to its connection.
RawChunks ==
    { <<"a", "b", " ">>, <<"1", "_", "0">>, <<"-", "1", " ">> }

VARIABLES
    lpc,            \* the server process: where it stands in server.py
    lsock,          \* the listening socket `server`
    backlog,        \* connections established and not yet accepted
    aconn,          \* the connection accept() returned, 0 when none
    lreport,        \* what the listener printed about an error
    accepted,       \* the connections accept() has returned, in that order
    stop_acks,      \* per connection: `acks` when the listener stopped
    kind,           \* per peer: "client" runs client.py, "raw" any TCP peer
    cpc,            \* per peer: where it stands in client.py
    message,        \* client.py `message`: the line being sent
    nlines,         \* number of input() calls made so far
    creport,        \* what the client printed about an error
    ccloses,        \* number of client.close() calls
    c2s,            \* bytes written by the peer, not yet read by the handler
    s2c,            \* bytes written by the handler, not yet read by the peer
    peer_end,       \* the peer's end of the connection: open, fin or rst
    conn_end,       \* the server's end of the connection: open, fin or rst
    hpc,            \* per connection: where handle_client stands
    connected,      \* handle_client `connected`
    msg_length_header, \* handle_client `msg_length_header`
    msg_length,     \* handle_client `msg_length`
    msg,            \* handle_client `msg`
    herr,           \* which [ERROR] line the handler printed, if any
    hexit,          \* what ended the handler's loop
    log,            \* the payloads the handler printed as "[addr] msg"
    acks,           \* number of acknowledgments the handler has sent
    hcloses,        \* number of conn.close() calls of the handler
    hdr_reads,      \* number of header reads that returned bytes
    hio_closed,     \* the handler called recv or send after conn.close()
    sent,           \* the payloads of the frames the client has written
    responses,      \* the texts the client printed as "[SERVER] ..."
    short_reads,    \* number of short reads so far
    faults          \* number of failures of the environment so far

lvars == <<lpc, lsock, backlog, aconn, lreport, accepted, stop_acks>>

cvars == <<kind, cpc, message, nlines, creport, ccloses, sent, responses>>

nvars == <<c2s, s2c, peer_end, conn_end>>

evars == <<short_reads, faults>>

hvars == <<hpc, connected, msg_length_header, msg_length, msg, herr, hexit, log, acks, hcloses,
           hdr_reads, hio_closed>>

vars == <<lvars, cvars, nvars, hvars, evars>>

\* The handler states of the specification: Active, Closing, Closed.
Active == {"header", "payload", "ack"}

Init ==
    /\ lpc = "bind"
    /\ lsock = "created"
    /\ backlog = <<>>
    /\ aconn = 0
    /\ lreport = "none"
    /\ accepted = <<>>
    /\ stop_acks = [c \in Clients |-> 0]
    /\ kind \in {k \in [Clients -> {"client", "raw"}] : k[1] = "client"}
    /\ cpc = [c \in Clients |-> "connect"]
    /\ message = [c \in Clients |-> <<>>]
    /\ nlines = [c \in Clients |-> 0]
    /\ creport = [c \in Clients |-> "none"]
    /\ ccloses = [c \in Clients |-> 0]
    /\ c2s = [c \in Clients |-> <<>>]
    /\ s2c = [c \in Clients |-> <<>>]
    /\ peer_end = [c \in Clients |-> "open"]
    /\ conn_end = [c \in Clients |-> "open"]
    /\ hpc = [c \in Clients |-> "none"]
    /\ connected = [c \in Clients |-> FALSE]
    /\ msg_length_header = [c \in Clients |-> <<>>]
    /\ msg_length = [c \in Clients |-> 0]
    /\ msg = [c \in Clients |-> <<>>]
    /\ herr = [c \in Clients |-> "none"]
    /\ hexit = [c \in Clients |-> "none"]
    /\ log = [c \in Clients |-> <<>>]
    /\ acks = [c \in Clients |-> 0]
    /\ hcloses = [c \in Clients |-> 0]
    /\ hdr_reads = [c \in Clients |-> 0]
    /\ hio_closed = [c \in Clients |-> FALSE]
    /\ sent = [c \in Clients |-> <<>>]
    /\ responses = [c \in Clients |-> <<>>]
    /\ short_reads = 0
    /\ faults = 0

\* ------------------------------------------------------------------------
\* TCP as the two programs see it
\* ------------------------------------------------------------------------

\* The lengths a blocking recv(bufsize) may return when `stream` holds bytes:
\* at least one byte, at most bufsize and at most what has arrived.
RecvSizes(stream, bufsize) ==
    { k \in 1..Min(bufsize, Len(stream)) :
        k = Min(bufsize, Len(stream)) \/ short_reads < MaxShortReads }

\* The count of short reads after a recv(bufsize) that returned k bytes.
AfterRecv(stream, bufsize, k) ==
    IF k < Min(bufsize, Len(stream)) THEN short_reads + 1 ELSE short_reads

RECURSIVE LinesTyped(_)
\* The number of input() calls of the clients in S that have returned.
LinesTyped(S) ==
    IF S = {} THEN 0
    ELSE LET c == CHOOSE x \in S : TRUE
         IN  nlines[c] + LinesTyped(S \ {c})

\* A failure of the environment, within the bound.
Fault ==
    /\ faults < MaxFaults
    /\ faults' = faults + 1

\* The state of an end that is closed (by close() or by the exit of its
\* process): an orderly FIN, or a reset when received bytes were left unread.
CloseEnd(unread) == IF unread # <<>> THEN "rst" ELSE "fin"

\* Bytes written towards an end: queued while that end is open; an end that
\* has closed discards them and answers with a reset.
Deliver(stream, end, bytes) == IF end = "open" THEN stream \o bytes ELSE stream

AfterWrite(end) == IF end = "open" THEN "open" ELSE "rst"


\* ------------------------------------------------------------------------
\* server.py: handle_client(conn, addr), one thread per connection
\* ------------------------------------------------------------------------

\* An except clause that clears one flag shared by all the handlers.
handler_except_shared(c, error) ==
    /\ connected' = [d \in Clients |-> FALSE]
    /\ herr' = [herr EXCEPT ![c] = error]
    /\ hexit' = [hexit EXCEPT ![c] = IF @ = "none" THEN error ELSE @]
    /\ hpc' = [hpc EXCEPT ![c] = "cleanup"]

\* An except clause that returns from handle_client, past the cleanup.
handler_except_return(c, error) ==
    /\ connected' = [connected EXCEPT ![c] = FALSE]
    /\ herr' = [herr EXCEPT ![c] = error]
    /\ hexit' = [hexit EXCEPT ![c] = IF @ = "none" THEN error ELSE @]
    /\ hpc' = [hpc EXCEPT ![c] = "closed"]

\* An except clause of the loop: print the [ERROR] line, connected = False;
\* the loop test then fails and the handler goes on to its cleanup.
handler_except(c, error) ==
    /\ connected' = [connected EXCEPT ![c] = FALSE]
    /\ herr' = [herr EXCEPT ![c] = error]
    /\ hexit' = [hexit EXCEPT ![c] = IF @ = "none" THEN error ELSE @]
    /\ hpc' = [hpc EXCEPT ![c] = "cleanup"]

\* The empty header handed to int(), which raises ValueError.
handler_peer_closed_unchecked(c) ==
    /\ connected' = [connected EXCEPT ![c] = FALSE]
    /\ herr' = [herr EXCEPT ![c] = "invalid"]
    /\ hexit' = [hexit EXCEPT ![c] = "invalid"]
    /\ hpc' = [hpc EXCEPT ![c] = "cleanup"]

\* Lines 54-56: the header read returned no bytes, the peer has closed:
\* connected = False and `continue`, with no error line printed.
handler_peer_closed(c) ==
    /\ connected' = [connected EXCEPT ![c] = FALSE]
    /\ hexit' = [hexit EXCEPT ![c] = "eof"]
    /\ hpc' = [hpc EXCEPT ![c] = "cleanup"]
    /\ UNCHANGED herr

\* Lines 51-59 once the header bytes are in hand: decode (a
\* UnicodeDecodeError is a ValueError), then int().
handler_header(c, data) ==
    LET d == Decode(data)
        v == ParseInt(d.text)
    IN  IF d.ok
        THEN /\ msg_length_header' = [msg_length_header EXCEPT ![c] = d.text]
             /\ IF v.ok
                THEN /\ msg_length' = [msg_length EXCEPT ![c] = v.val]
                     /\ hpc' = [hpc EXCEPT ![c] = "payload"]
                     /\ UNCHANGED <<connected, herr, hexit>>
                ELSE /\ handler_except(c, "invalid")
                     /\ UNCHANGED msg_length
        ELSE /\ handler_except(c, "invalid")
             /\ UNCHANGED <<msg_length_header, msg_length>>

\* Lines 51-59: conn.recv(HEADER), blocking until bytes arrive or the peer
\* closes; ConnectionResetError on a connection the peer has reset.
handle_client_header(c) ==
    /\ hpc[c] = "header"
    /\ hio_closed' = [hio_closed EXCEPT ![c] = @ \/ hcloses[c] > 0]
    /\ IF peer_end[c] = "rst"
       THEN /\ handler_except(c, "reset")
            /\ UNCHANGED <<c2s, msg_length_header, msg_length, hdr_reads,
                           short_reads>>
       ELSE IF c2s[c] = <<>>
       THEN /\ peer_end[c] = "fin"
            /\ handler_peer_closed(c)
            /\ UNCHANGED <<c2s, msg_length_header, msg_length, hdr_reads,
                           short_reads>>
       ELSE \E k \in RecvSizes(c2s[c], HEADER) :
               /\ handler_header(c, Take(c2s[c], k))
               /\ c2s' = [c2s EXCEPT ![c] = Drop(@, k)]
               /\ hdr_reads' = [hdr_reads EXCEPT ![c] = @ + 1]
               /\ short_reads' = AfterRecv(c2s[c], HEADER, k)
    /\ UNCHANGED <<lvars, cvars, s2c, peer_end, conn_end, msg, log, acks,
                   hcloses, faults>>

\* The payload handled with a break at the disconnect command: the loop is
\* left before the acknowledgment of line 72.
handler_message_break(c, data) ==
    LET d == Decode(data)
    IN  IF d.ok
        THEN \/ /\ msg' = [msg EXCEPT ![c] = d.text]
                /\ connected' = [connected EXCEPT
                                   ![c] = IF d.text = MSG_DISCONNECT
                                          THEN FALSE ELSE @]
                /\ hexit' = [hexit EXCEPT
                               ![c] = IF d.text = MSG_DISCONNECT
                                      THEN "sentinel" ELSE @]
                /\ log' = [log EXCEPT ![c] = Append(@, d.text)]
                /\ hpc' = [hpc EXCEPT
                             ![c] = IF d.text = MSG_DISCONNECT
                                    THEN "cleanup" ELSE "ack"]
                /\ UNCHANGED <<herr, faults>>
             \/ /\ Fault
                /\ msg' = [msg EXCEPT ![c] = d.text]
                /\ handler_except(c, "invalid")
                /\ UNCHANGED log
        ELSE /\ handler_except(c, "invalid")
             /\ UNCHANGED <<msg, log, faults>>

\* Lines 62-69 once the payload bytes are in hand: decode, compare with the
\* disconnect command, print.  The print of line 69 raises
\* UnicodeEncodeError, a ValueError, when the console cannot show the text.
handler_message(c, data) ==
    LET d == Decode(data)
    IN  IF d.ok
        THEN \/ /\ msg' = [msg EXCEPT ![c] = d.text]
                /\ connected' = [connected EXCEPT
                                   ![c] = IF d.text = MSG_DISCONNECT
                                          THEN FALSE ELSE @]
                /\ hexit' = [hexit EXCEPT
                               ![c] = IF d.text = MSG_DISCONNECT
                                      THEN "sentinel" ELSE @]
                /\ log' = [log EXCEPT ![c] = Append(@, d.text)]
                /\ hpc' = [hpc EXCEPT ![c] = "ack"]
                /\ UNCHANGED <<herr, faults>>
             \/ /\ Fault
                /\ msg' = [msg EXCEPT ![c] = d.text]
                /\ handler_except(c, "invalid")
                /\ UNCHANGED log
        ELSE /\ handler_except(c, "invalid")
             /\ UNCHANGED <<msg, log, faults>>

\* Lines 62-69: conn.recv(msg_length).  A negative size raises ValueError
\* before anything is read; a size of zero returns no bytes at once.
handle_client_payload(c) ==
    /\ hpc[c] = "payload"
    /\ hio_closed' = [hio_closed EXCEPT ![c] = @ \/ hcloses[c] > 0]
    /\ IF msg_length[c] < 0
       THEN /\ handler_except(c, "invalid")
            /\ UNCHANGED <<c2s, msg, log, short_reads, faults>>
       ELSE IF msg_length[c] = 0
       THEN /\ handler_message(c, <<>>)
            /\ UNCHANGED <<c2s, short_reads>>
       ELSE IF peer_end[c] = "rst"
       THEN /\ handler_except(c, "reset")
            /\ UNCHANGED <<c2s, msg, log, short_reads, faults>>
       ELSE IF c2s[c] = <<>>
       THEN /\ peer_end[c] = "fin"
            /\ handler_message(c, <<>>)
            /\ UNCHANGED <<c2s, short_reads>>
       ELSE \E k \in RecvSizes(c2s[c], msg_length[c]) :
               /\ handler_message(c, Take(c2s[c], k))
               /\ c2s' = [c2s EXCEPT ![c] = Drop(@, k)]
               /\ short_reads' = AfterRecv(c2s[c], msg_length[c], k)
    /\ UNCHANGED <<lvars, cvars, s2c, peer_end, conn_end, msg_length_header,
                   msg_length, acks, hcloses, hdr_reads>>

\* The acknowledgment sent outside the try: a failed send ends the thread
\* with its exception, past the except clauses and the cleanup.
handle_client_ack_outside_try(c) ==
    /\ hpc[c] = "ack"
    /\ hio_closed' = [hio_closed EXCEPT ![c] = @ \/ hcloses[c] > 0]
    /\ IF peer_end[c] = "rst"
       THEN /\ hpc' = [hpc EXCEPT ![c] = "died"]
            /\ UNCHANGED <<s2c, peer_end, acks, connected, herr, hexit>>
       ELSE /\ s2c' = [s2c EXCEPT
                         ![c] = Deliver(@, peer_end[c], Encode(ACK_TEXT))]
            /\ peer_end' = [peer_end EXCEPT ![c] = AfterWrite(@)]
            /\ acks' = [acks EXCEPT ![c] = @ + 1]
            /\ hpc' = [hpc EXCEPT
                         ![c] = IF connected[c] THEN "header" ELSE "cleanup"]
            /\ UNCHANGED <<connected, herr, hexit>>
    /\ UNCHANGED <<lvars, cvars, c2s, conn_end, msg_length_header, msg_length,
                   msg, log, hcloses, hdr_reads, evars>>

\* Line 72 and the loop test of line 47: send the acknowledgment.  On a
\* connection the peer has reset the send raises ConnectionResetError or
\* BrokenPipeError (the latter caught by `except Exception`).
handle_client_ack(c) ==
    /\ hpc[c] = "ack"
    /\ hio_closed' = [hio_closed EXCEPT ![c] = @ \/ hcloses[c] > 0]
    /\ IF peer_end[c] = "rst"
       THEN /\ \E error \in {"reset", "unexpected"} : handler_except(c, error)
            /\ UNCHANGED <<s2c, peer_end, acks>>
       ELSE /\ s2c' = [s2c EXCEPT
                         ![c] = Deliver(@, peer_end[c], Encode(ACK_TEXT))]
            /\ peer_end' = [peer_end EXCEPT ![c] = AfterWrite(@)]
            /\ acks' = [acks EXCEPT ![c] = @ + 1]
            /\ hpc' = [hpc EXCEPT
                         ![c] = IF connected[c] THEN "header" ELSE "cleanup"]
            /\ UNCHANGED <<connected, herr, hexit>>
    /\ UNCHANGED <<lvars, cvars, c2s, conn_end, msg_length_header, msg_length,
                   msg, log, hcloses, hdr_reads, evars>>

\* Lines 88-92: the cleanup after the loop, conn.close().
handle_client_close(c) ==
    /\ hpc[c] = "cleanup"
    /\ hcloses' = [hcloses EXCEPT ![c] = @ + 1]
    /\ conn_end' = [conn_end EXCEPT ![c] = CloseEnd(c2s[c])]
    /\ s2c' = [s2c EXCEPT ![c] = IF c2s[c] # <<>> THEN <<>> ELSE @]
    /\ hpc' = [hpc EXCEPT ![c] = "closed"]
    /\ UNCHANGED <<lvars, cvars, c2s, peer_end, connected, msg_length_header,
                   msg_length, msg, herr, hexit, log, acks, hdr_reads,
                   hio_closed, evars>>


\* ------------------------------------------------------------------------
\* server.py: the listening socket and start()
\* ------------------------------------------------------------------------

\* Connections still in the backlog of a listening socket that is closed are
\* reset by the system.
ResetBacklog ==
    [c \in Clients |->
        IF \E i \in 1..Len(backlog) : backlog[i] = c
        THEN "rst" ELSE conn_end[c]]

\* A finally clause that closes the accepted connections with the
\* listening socket.
start_finally_close_all(report) ==
    /\ lreport' = report
    /\ lsock' = "closed"
    /\ lpc' = "stopped"
    /\ stop_acks' = acks
    /\ backlog' = <<>>
    /\ conn_end' = [c \in Clients |->
                      IF conn_end[c] = "open" THEN CloseEnd(c2s[c])
                      ELSE conn_end[c]]

\* An except clause of start() with no finally clause after it: the report
\* is printed and the listening socket is left as it is.
start_finally_no_close(report) ==
    /\ lreport' = report
    /\ lpc' = "stopped"
    /\ stop_acks' = acks
    /\ UNCHANGED <<lsock, backlog, conn_end>>

\* Lines 122-130: an except clause of start() prints its report, and the
\* finally clause closes the listening socket.
start_finally(report) ==
    /\ lreport' = report
    /\ lsock' = "closed"
    /\ lpc' = "stopped"
    /\ stop_acks' = acks
    /\ backlog' = <<>>
    /\ conn_end' = ResetBacklog

\* Line 32: server.bind(ADDR), at module level and outside any try.  When it
\* raises OSError the interpreter ends with a traceback: start() is never
\* called and no statement of the program closes the socket.
server_bind ==
    /\ lpc = "bind"
    /\ \/ /\ lsock' = "bound"
          /\ lpc' = "start"
          /\ UNCHANGED <<lreport, faults>>
       \/ /\ Fault
          /\ lpc' = "crashed"
          /\ lreport' = "traceback"
          /\ UNCHANGED lsock
    /\ UNCHANGED <<backlog, aconn, accepted, stop_acks, cvars, nvars, hvars,
                   short_reads>>

\* Line 102: server.listen(), or the OSError it raises.
start_listen ==
    /\ lpc = "start"
    /\ \/ /\ lsock' = "listening"
          /\ lpc' = "accept"
          /\ UNCHANGED <<lreport, stop_acks, backlog, conn_end, faults>>
       \/ /\ Fault
          /\ start_finally("startup_error")
    /\ UNCHANGED <<aconn, accepted, cvars, c2s, s2c, peer_end, hvars,
                   short_reads>>

\* Line 110: conn, addr = server.accept(), blocking while the backlog is
\* empty.
start_accept ==
    /\ lpc = "accept"
    /\ backlog # <<>>
    /\ aconn' = Head(backlog)
    /\ accepted' = Append(accepted, Head(backlog))
    /\ backlog' = Tail(backlog)
    /\ lpc' = "spawn"
    /\ UNCHANGED <<lsock, lreport, stop_acks, cvars, nvars, hvars, evars>>

\* Line 110 raising OSError (for instance no file descriptor left).
start_accept_error ==
    /\ lpc = "accept"
    /\ Fault
    /\ start_finally("startup_error")
    /\ UNCHANGED <<aconn, accepted, cvars, c2s, s2c, peer_end, hvars,
                   short_reads>>

\* handle_client(conn, addr) called in the loop itself, with no thread: the
\* listener enters the handler and goes back to accept when it has returned.
start_thread_inline ==
    /\ lpc = "spawn"
    /\ IF hpc[aconn] = "none"
       THEN /\ hpc' = [hpc EXCEPT ![aconn] = "header"]
            /\ connected' = [connected EXCEPT ![aconn] = TRUE]
            /\ UNCHANGED <<aconn, lpc>>
       ELSE /\ hpc[aconn] = "closed"
            /\ aconn' = 0
            /\ lpc' = "accept"
            /\ UNCHANGED <<hpc, connected>>
    /\ UNCHANGED <<lsock, backlog, lreport, accepted, stop_acks, cvars, nvars,
                   msg_length_header, msg_length, msg, herr, hexit, log,
                   acks, hcloses, hdr_reads, hio_closed, evars>>

\* Lines 116-120: the handler thread is started and the loop goes back to
\* accept; handle_client enters its loop with connected = True.
start_thread ==
    /\ lpc = "spawn"
    /\ hpc' = [hpc EXCEPT ![aconn] = "header"]
    /\ connected' = [connected EXCEPT ![aconn] = TRUE]
    /\ aconn' = 0
    /\ lpc' = "accept"
    /\ UNCHANGED <<lsock, backlog, lreport, accepted, stop_acks, cvars, nvars,
                   msg_length_header, msg_length, msg, herr, hexit, log,
                   acks, hcloses, hdr_reads, hio_closed, evars>>

\* Line 117 raising RuntimeError (no thread can be started): caught by
\* `except Exception`; the accepted connection is left with no handler.
start_thread_error ==
    /\ lpc = "spawn"
    /\ Fault
    /\ start_finally("unexpected")
    /\ UNCHANGED <<aconn, accepted, cvars, c2s, s2c, peer_end, hvars,
                   short_reads>>

\* ------------------------------------------------------------------------
\* client.py
\* ------------------------------------------------------------------------

\* Lines 26-32: client.connect(ADDR); refused unless the server listens, and
\* then the client prints its error and exit()s.
client_connect(c) ==
    /\ cpc[c] = "connect"
    /\ IF lsock = "listening"
       THEN /\ backlog' = Append(backlog, c)
            /\ cpc' = [cpc EXCEPT
                         ![c] = IF kind[c] = "client" THEN "input" ELSE "raw"]
            /\ UNCHANGED creport
       ELSE /\ cpc' = [cpc EXCEPT ![c] = "exited"]
            /\ creport' = [creport EXCEPT ![c] = "refused"]
            /\ UNCHANGED backlog
    /\ UNCHANGED <<lpc, lsock, aconn, lreport, accepted, stop_acks, kind,
                   message, nlines, ccloses,
                   sent, responses, nvars, hvars, evars>>

\* The line read and handed to send() without the test of line 83.
client_input_unchecked(c) ==
    /\ cpc[c] = "input"
    /\ LinesTyped(Clients) < MaxLines
    /\ nlines' = [nlines EXCEPT ![c] = @ + 1]
    /\ \E line \in Lines :
          /\ message' = [message EXCEPT ![c] = line]
          /\ cpc' = [cpc EXCEPT ![c] = "send_header"]
    /\ UNCHANGED <<lvars, kind, creport, ccloses, sent, responses, nvars,
                   hvars, evars>>

\* Lines 80-83: message = input("> "); an empty line is not sent.
client_input(c) ==
    /\ cpc[c] = "input"
    /\ LinesTyped(Clients) < MaxLines
    /\ nlines' = [nlines EXCEPT ![c] = @ + 1]
    /\ \E line \in Lines :
          /\ message' = [message EXCEPT ![c] = line]
          /\ cpc' = [cpc EXCEPT
                       ![c] = IF line # <<>> THEN "send_header" ELSE "input"]
    /\ UNCHANGED <<lvars, kind, creport, ccloses, sent, responses, nvars,
                   hvars, evars>>

\* Line 80 raising EOFError or KeyboardInterrupt: nothing catches it, the
\* interpreter prints the traceback and ends, line 98 is never reached and
\* the system closes the socket of the dead process.
client_input_eof(c) ==
    /\ cpc[c] = "input"
    /\ Fault
    /\ cpc' = [cpc EXCEPT ![c] = "died"]
    /\ creport' = [creport EXCEPT ![c] = "traceback"]
    /\ peer_end' = [peer_end EXCEPT ![c] = CloseEnd(s2c[c])]
    /\ c2s' = [c2s EXCEPT ![c] = IF s2c[c] # <<>> THEN <<>> ELSE @]
    /\ UNCHANGED <<lvars, kind, message, nlines, ccloses, sent,
                   responses, s2c, conn_end, hvars, short_reads>>

\* Lines 65-69 and 86-87: send() prints the lost connection and returns
\* False, and the main loop breaks.
send_lost(c) ==
    /\ creport' = [creport EXCEPT ![c] = "lost"]
    /\ cpc' = [cpc EXCEPT ![c] = "cleanup"]

\* Lines 46-57: encode the message, build the header, client.send(header).
client_send_header(c) ==
    /\ cpc[c] = "send_header"
    /\ IF conn_end[c] = "rst"
       THEN /\ send_lost(c)
            /\ UNCHANGED <<c2s, conn_end, sent>>
       ELSE /\ c2s' = [c2s EXCEPT
                         ![c] = Deliver(@, conn_end[c],
                                        send_length(Encode(message[c])))]
            /\ conn_end' = [conn_end EXCEPT ![c] = AfterWrite(@)]
            /\ sent' = [sent EXCEPT ![c] = Append(@, message[c])]
            /\ cpc' = [cpc EXCEPT ![c] = "send_message"]
            /\ UNCHANGED creport
    /\ UNCHANGED <<lvars, kind, message, nlines, ccloses, responses, s2c,
                   peer_end, hvars, evars>>

\* Line 59: client.send(message).
client_send_message(c) ==
    /\ cpc[c] = "send_message"
    /\ IF conn_end[c] = "rst"
       THEN /\ send_lost(c)
            /\ UNCHANGED <<c2s, conn_end>>
       ELSE /\ c2s' = [c2s EXCEPT
                         ![c] = Deliver(@, conn_end[c], Encode(message[c]))]
            /\ conn_end' = [conn_end EXCEPT ![c] = AfterWrite(@)]
            /\ cpc' = [cpc EXCEPT ![c] = "recv"]
            /\ UNCHANGED creport
    /\ UNCHANGED <<lvars, kind, message, nlines, ccloses, sent, responses,
                   s2c, peer_end, hvars, evars>>

\* The response printed and the loop going back to the prompt whatever the
\* message was (no break after the disconnect command).
client_response_no_break(c, data) ==
    /\ responses' = [responses EXCEPT ![c] = Append(@, Decode(data).text)]
    /\ cpc' = [cpc EXCEPT ![c] = "input"]
    /\ UNCHANGED creport

\* Lines 62-63 and 69, then lines 86-91 of the main loop: the response is
\* whatever one recv(2048) returns, no bytes included; send() returns True
\* and the loop breaks only after the disconnect command.
client_response(c, data) ==
    /\ responses' = [responses EXCEPT ![c] = Append(@, Decode(data).text)]
    /\ cpc' = [cpc EXCEPT
                 ![c] = IF message[c] = MSG_DISCONNECT
                        THEN "cleanup" ELSE "input"]
    /\ UNCHANGED creport

client_recv(c) ==
    /\ cpc[c] = "recv"
    /\ IF conn_end[c] = "rst"
       THEN /\ send_lost(c)
            /\ UNCHANGED <<s2c, responses, short_reads>>
       ELSE IF s2c[c] = <<>>
       THEN /\ conn_end[c] = "fin"
            /\ client_response(c, <<>>)
            /\ UNCHANGED <<s2c, short_reads>>
       ELSE \E k \in RecvSizes(s2c[c], RECV_BUF) :
               /\ client_response(c, Take(s2c[c], k))
               /\ s2c' = [s2c EXCEPT ![c] = Drop(@, k)]
               /\ short_reads' = AfterRecv(s2c[c], RECV_BUF, k)
    /\ UNCHANGED <<lvars, kind, message, nlines, ccloses, sent, c2s,
                   peer_end, conn_end, hvars, faults>>

\* Lines 96-98: client.close() after the loop.
client_close(c) ==
    /\ cpc[c] = "cleanup"
    /\ ccloses' = [ccloses EXCEPT ![c] = @ + 1]
    /\ peer_end' = [peer_end EXCEPT ![c] = CloseEnd(s2c[c])]
    /\ c2s' = [c2s EXCEPT ![c] = IF s2c[c] # <<>> THEN <<>> ELSE @]
    /\ cpc' = [cpc EXCEPT ![c] = "closed"]
    /\ UNCHANGED <<lvars, kind, message, nlines, creport, sent, responses,
                   s2c, conn_end, hvars, evars>>

\* ------------------------------------------------------------------------
\* The environment: other peers and the network
\* ------------------------------------------------------------------------

\* A peer that is not client.py writes bytes of its own choosing.
raw_send(c) ==
    /\ cpc[c] = "raw"
    /\ \E chunk \in RawChunks :
          c2s' = [c2s EXCEPT ![c] = Deliver(@, conn_end[c], chunk)]
    /\ conn_end' = [conn_end EXCEPT ![c] = AfterWrite(@)]
    /\ cpc' = [cpc EXCEPT ![c] = "raw_sent"]
    /\ UNCHANGED <<lvars, kind, message, nlines, creport, ccloses, sent,
                   responses, s2c, peer_end, hvars, evars>>

\* It closes its socket, having sent something or nothing.
raw_close(c) ==
    /\ cpc[c] \in {"raw", "raw_sent"}
    /\ peer_end' = [peer_end EXCEPT ![c] = CloseEnd(s2c[c])]
    /\ c2s' = [c2s EXCEPT ![c] = IF s2c[c] # <<>> THEN <<>> ELSE @]
    /\ cpc' = [cpc EXCEPT ![c] = "closed"]
    /\ UNCHANGED <<lvars, kind, message, nlines, creport, ccloses, sent,
                   responses, s2c, conn_end, hvars, evars>>

\* The host of a client or the network resets an established connection
\* ("Client likely crashed", line 77).
peer_reset(c) ==
    /\ cpc[c] \in {"input", "send_header", "send_message", "recv"}
    /\ Fault
    /\ cpc' = [cpc EXCEPT ![c] = "died"]
    /\ peer_end' = [peer_end EXCEPT ![c] = "rst"]
    /\ c2s' = [c2s EXCEPT ![c] = <<>>]
    /\ UNCHANGED <<lvars, kind, message, nlines, creport, ccloses, sent,
                   responses, s2c, conn_end, hvars, short_reads>>

\* ------------------------------------------------------------------------
\* The system
\* ------------------------------------------------------------------------

Next ==
    \/ server_bind
    \/ start_listen
    \/ start_accept
    \/ start_accept_error
    \/ start_thread
    \/ start_thread_error
    \/ \E c \in Clients : handle_client_header(c)
    \/ \E c \in Clients : handle_client_payload(c)
    \/ \E c \in Clients : handle_client_ack(c)
    \/ \E c \in Clients : handle_client_close(c)
    \/ \E c \in Clients : client_connect(c)
    \/ \E c \in Clients : client_input(c)
    \/ \E c \in Clients : client_input_eof(c)
    \/ \E c \in Clients : client_send_header(c)
    \/ \E c \in Clients : client_send_message(c)
    \/ \E c \in Clients : client_recv(c)
    \/ \E c \in Clients : client_close(c)
    \/ \E c \in Clients : raw_send(c)
    \/ \E c \in Clients : raw_close(c)
    \/ \E c \in Clients : peer_reset(c)

Spec == Init /\ [][Next]_vars


\* ------------------------------------------------------------------------
\* The programs alone: the runs in which nothing of the environment fails
\* ------------------------------------------------------------------------

\* As Init, with every peer running client.py and no failure to come.
InitLive ==
    /\ lpc = "bind"
    /\ lsock = "created"
    /\ backlog = <<>>
    /\ aconn = 0
    /\ lreport = "none"
    /\ accepted = <<>>
    /\ stop_acks = [c \in Clients |-> 0]
    /\ kind = [c \in Clients |-> "client"]
    /\ cpc = [c \in Clients |-> "connect"]
    /\ message = [c \in Clients |-> <<>>]
    /\ nlines = [c \in Clients |-> 0]
    /\ creport = [c \in Clients |-> "none"]
    /\ ccloses = [c \in Clients |-> 0]
    /\ c2s = [c \in Clients |-> <<>>]
    /\ s2c = [c \in Clients |-> <<>>]
    /\ peer_end = [c \in Clients |-> "open"]
    /\ conn_end = [c \in Clients |-> "open"]
    /\ hpc = [c \in Clients |-> "none"]
    /\ connected = [c \in Clients |-> FALSE]
    /\ msg_length_header = [c \in Clients |-> <<>>]
    /\ msg_length = [c \in Clients |-> 0]
    /\ msg = [c \in Clients |-> <<>>]
    /\ herr = [c \in Clients |-> "none"]
    /\ hexit = [c \in Clients |-> "none"]
    /\ log = [c \in Clients |-> <<>>]
    /\ acks = [c \in Clients |-> 0]
    /\ hcloses = [c \in Clients |-> 0]
    /\ hdr_reads = [c \in Clients |-> 0]
    /\ hio_closed = [c \in Clients |-> FALSE]
    /\ sent = [c \in Clients |-> <<>>]
    /\ responses = [c \in Clients |-> <<>>]
    /\ short_reads = 0
    /\ faults = MaxFaults

NextLive ==
    \/ server_bind
    \/ start_listen
    \/ start_accept
    \/ start_thread
    \/ \E c \in Clients : handle_client_header(c)
    \/ \E c \in Clients : handle_client_payload(c)
    \/ \E c \in Clients : handle_client_ack(c)
    \/ \E c \in Clients : handle_client_close(c)
    \/ \E c \in Clients : client_connect(c)
    \/ \E c \in Clients : client_input(c)
    \/ \E c \in Clients : client_send_header(c)
    \/ \E c \in Clients : client_send_message(c)
    \/ \E c \in Clients : client_recv(c)
    \/ \E c \in Clients : client_close(c)

\* A step of the server's threads, or of a client between a line typed and
\* the end of its program.
ProgramStep ==
    \/ server_bind
    \/ start_listen
    \/ start_accept
    \/ start_thread
    \/ \E c \in Clients : handle_client_header(c)
    \/ \E c \in Clients : handle_client_payload(c)
    \/ \E c \in Clients : handle_client_ack(c)
    \/ \E c \in Clients : handle_client_close(c)
    \/ \E c \in Clients : client_send_header(c)
    \/ \E c \in Clients : client_send_message(c)
    \/ \E c \in Clients : client_recv(c)
    \/ \E c \in Clients : client_close(c)

\* The system runs the programs while one of them can take a step; the
\* operator is not bound to type anything.
FairLive == WF_vars(ProgramStep)

SpecLive == InitLive /\ [][NextLive]_vars /\ FairLive

\* ------------------------------------------------------------------------
\* The framing alone: one frame over one established connection
\* ------------------------------------------------------------------------

RECURSIVE Pow10(_)
Pow10(n) == IF n = 0 THEN 1 ELSE 10 * Pow10(n - 1)

\* Payload lengths: the short ones, and those around the powers of ten at
\* which the decimal length gains a digit, up to one digit more than HEADER.
CodecLens ==
    (1..MaxCodecLen) \cup
    { Pow10(HEADER - 1) - 1, Pow10(HEADER - 1),
      Pow10(HEADER) - 1, Pow10(HEADER), Pow10(HEADER) + 1 }

\* The lines typed in these runs: ASCII text of those lengths, and non-ASCII
\* text whose byte length is twice its length.
CodecLines ==
    { Repeat("a", n) : n \in CodecLens } \cup
    { Repeat("U+E9", n) : n \in 1..MaxCodecLen } \cup
    { Repeat("U+E9", Pow10(HEADER) \div 2) }

\* The server listens, client 1 is connected and its handler runs, the
\* operator has typed a line; the network cuts no read short and nothing
\* fails.
InitCodec ==
    /\ lpc = "accept"
    /\ lsock = "listening"
    /\ backlog = <<>>
    /\ aconn = 0
    /\ lreport = "none"
    /\ accepted = <<1>>
    /\ stop_acks = [c \in Clients |-> 0]
    /\ kind = [c \in Clients |-> "client"]
    /\ cpc = [c \in Clients |-> IF c = 1 THEN "send_header" ELSE "connect"]
    /\ \E line \in CodecLines :
          message = [c \in Clients |-> IF c = 1 THEN line ELSE <<>>]
    /\ nlines = [c \in Clients |-> IF c = 1 THEN 1 ELSE 0]
    /\ creport = [c \in Clients |-> "none"]
    /\ ccloses = [c \in Clients |-> 0]
    /\ c2s = [c \in Clients |-> <<>>]
    /\ s2c = [c \in Clients |-> <<>>]
    /\ peer_end = [c \in Clients |-> "open"]
    /\ conn_end = [c \in Clients |-> "open"]
    /\ hpc = [c \in Clients |-> IF c = 1 THEN "header" ELSE "none"]
    /\ connected = [c \in Clients |-> c = 1]
    /\ msg_length_header = [c \in Clients |-> <<>>]
    /\ msg_length = [c \in Clients |-> 0]
    /\ msg = [c \in Clients |-> <<>>]
    /\ herr = [c \in Clients |-> "none"]
    /\ hexit = [c \in Clients |-> "none"]
    /\ log = [c \in Clients |-> <<>>]
    /\ acks = [c \in Clients |-> 0]
    /\ hcloses = [c \in Clients |-> 0]
    /\ hdr_reads = [c \in Clients |-> 0]
    /\ hio_closed = [c \in Clients |-> FALSE]
    /\ sent = [c \in Clients |-> <<>>]
    /\ responses = [c \in Clients |-> <<>>]
    /\ short_reads = MaxShortReads
    /\ faults = MaxFaults

NextCodec ==
    \/ client_send_header(1)
    \/ client_send_message(1)
    \/ handle_client_header(1)
    \/ handle_client_payload(1)
    \/ handle_client_ack(1)
    \/ handle_client_close(1)
    \/ client_recv(1)

SpecCodec == InitCodec /\ [][NextCodec]_vars

\* ------------------------------------------------------------------------
\* Properties
\* ------------------------------------------------------------------------

\* The byte length of a line's payload, as decimal text, fits the header.
FitsHeader(line) == Len(Str(Len(Encode(line)))) <= HEADER

\* Decimal digits, left-aligned, then spaces only.
LeftAlignedDecimal(header) ==
    \E n \in 1..Len(header) :
       /\ \A i \in 1..n : IsDigit(header[i])
       /\ \A i \in (n + 1)..Len(header) : header[i] = " "

IsPrefix(a, b) == Len(a) <= Len(b) /\ Take(b, Len(a)) = a

RECURSIVE Flatten(_)
Flatten(seqs) ==
    IF seqs = <<>> THEN <<>> ELSE Head(seqs) \o Flatten(Tail(seqs))

Last(s) == s[Len(s)]

\* The bytes of n acknowledgments.
AckBytes(n) == Flatten([i \in 1..n |-> Encode(ACK_TEXT)])

\* The frame of a line: its header, then its payload.
FrameBytes(line) == send_length(Encode(line)) \o Encode(line)

\* The frames a client has written that its handler has not yet logged.
Pending(c) == SubSeq(sent[c], Len(log[c]) + 1, Len(sent[c]))

RECURSIVE TrimPadding(_)
\* A header text without the spaces around it.
TrimPadding(text) ==
    IF text # <<>> /\ Head(text) = " " THEN TrimPadding(Tail(text))
    ELSE IF text # <<>> /\ Last(text) = " "
    THEN TrimPadding(Take(text, Len(text) - 1))
    ELSE text

\* The text is a non-negative decimal integer once its padding is trimmed.
PlainDecimal(text) ==
    LET t == TrimPadding(text)
    IN  t # <<>> /\ \A i \in 1..Len(t) : IsDigit(t[i])

\* Everything that belongs to connection c: its peer, its streams, its
\* handler.
ConnState(c) ==
    <<kind[c], cpc[c], message[c], nlines[c], creport[c], ccloses[c],
      sent[c], responses[c], c2s[c], s2c[c], peer_end[c], conn_end[c],
      hpc[c], connected[c], msg_length_header[c], msg_length[c], msg[c],
      herr[c], hexit[c], log[c], acks[c], hcloses[c], hdr_reads[c],
      hio_closed[c]>>

\* C1: with two clients sending interleaved messages, each client gets
\* exactly one acknowledgment per non-terminating message it sends.  The
\* handler never sends more acknowledgments than its client has sent
\* messages; and when nothing has failed and a client that only sent
\* non-terminating messages is between two exchanges or has left its loop,
\* the acknowledgment bytes it has read or can still read are exactly one
\* "Message received" per message.
C1_ExactlyOneAck ==
    \A c \in Clients :
       kind[c] = "client" =>
          /\ acks[c] <= Len(sent[c])
          /\ ( /\ faults = 0
               /\ cpc[c] \in {"input", "cleanup", "closed"}
               /\ \A i \in 1..Len(sent[c]) : sent[c][i] # MSG_DISCONNECT )
             => /\ acks[c] = Len(sent[c])
                /\ Flatten(responses[c]) \o s2c[c] = AckBytes(Len(sent[c]))

\* The step ends handler c's loop, by an error or a disconnect, or closes
\* its connection.
HandlerEnds(c) ==
    \/ connected[c] /\ ~connected'[c]
    \/ hpc[c] = "cleanup" /\ hpc'[c] = "closed"

\* C2: an error or a disconnect on one connection is contained in that
\* connection's handler: the step that ends handler c or closes its
\* connection changes nothing of any other connection (its handler, its
\* streams, its exchange in flight) and nothing of the listener.
C2_Isolation ==
    [][ \A c \in Clients :
           HandlerEnds(c) =>
              /\ lvars' = lvars
              /\ \A d \in Clients \ {c} : ConnState(d)' = ConnState(d) ]_vars

\* One handler has ended on an invalid header and closed, while another
\* connection has had a message acknowledged, its handler is still in its
\* loop and the listener still accepts.
C2_Witness ==
    \E c, d \in Clients :
       /\ c # d
       /\ hexit[c] = "invalid" /\ hpc[c] = "closed"
       /\ hpc[d] \in Active /\ connected[d] /\ acks[d] >= 1
       /\ lpc = "accept"

\* C3: the handler reads exactly HEADER bytes for the header and exactly the
\* decoded length for the payload: the payloads it decodes are the payloads
\* the client sent, in order, and when it is about to read a header the
\* bytes that have arrived start at a frame boundary (they are the beginning
\* of the next frame the client wrote, its whole header included).
C3_ExactFrames ==
    \A c \in Clients :
       kind[c] = "client" =>
          /\ IsPrefix(log[c], sent[c])
          /\ ( /\ hpc[c] = "header"
               /\ c2s[c] # <<>>
               /\ peer_end[c] = "open" )
             => /\ Pending(c) # <<>>
                /\ IsPrefix(c2s[c], FrameBytes(Pending(c)[1]))
                /\ Len(c2s[c]) >= HEADER

\* C4: strict request/acknowledge alternation in one connection.  The client
\* has sent at most one frame more than it has had responses; the handler
\* has sent no more acknowledgments than it has decoded frames; and the
\* frames the handler has decoded are the frames the client sent, in order.
C4_Alternation ==
    \A c \in Clients :
       kind[c] = "client" =>
          /\ Len(sent[c]) <= Len(responses[c]) + 1
          /\ acks[c] <= Len(log[c])
          /\ IsPrefix(log[c], sent[c])

\* C5: every accepted connection is closed exactly once by its own handler,
\* on every path out of the loop, and the handler does no recv or send after
\* the close: conn.close() has been called once when the handler is Closed
\* and never before, a handler whose loop has ended (whatever ended it) is
\* in its cleanup or Closed, or is sending the acknowledgment of the
\* disconnect command, and no recv or send came after a close.
C5_ClosedOnce ==
    \A c \in Clients :
       /\ hcloses[c] = IF hpc[c] = "closed" THEN 1 ELSE 0
       /\ ~hio_closed[c]
       /\ (hpc[c] # "none" /\ ~connected[c]) =>
             \/ hpc[c] \in {"cleanup", "closed"}
             \/ hpc[c] = "ack" /\ hexit[c] = "sentinel"
       /\ (hpc[c] \in {"cleanup", "closed"}) => hexit[c] # "none"

\* Two handlers have closed their connections, one after the disconnect
\* command and one after a failed send of the acknowledgment.
C5_Witness ==
    \E c, d \in Clients :
       /\ hpc[c] = "closed" /\ hcloses[c] = 1 /\ hexit[c] = "sentinel"
       /\ hpc[d] = "closed" /\ hcloses[d] = 1
       /\ herr[d] \in {"reset", "unexpected"} /\ Len(log[d]) > acks[d]

\* C6: once a client has sent the frame of the disconnect command, the
\* handler logs it, reads no further header and closes: the handler has read
\* no more headers than the client has sent frames, and when nothing has
\* failed a handler that is Closed has logged the command last.
C6_SentinelEndsHandler ==
    \A c \in Clients :
       ( /\ kind[c] = "client"
         /\ sent[c] # <<>>
         /\ Last(sent[c]) = MSG_DISCONNECT )
       => /\ hdr_reads[c] <= Len(sent[c])
          /\ (faults = 0 /\ hpc[c] = "closed") =>
                log[c] # <<>> /\ Last(log[c]) = MSG_DISCONNECT

\* The step is a header read of handler c that returns no bytes.
ZeroByteHeaderRead(c) ==
    /\ hpc[c] = "header"
    /\ hpc'[c] # "header"
    /\ c2s[c] = <<>>
    /\ peer_end[c] = "fin"

\* C7: a header read that returns no bytes ends the handler's loop without
\* an error path and without an acknowledgment: the step prints no error
\* line and sends nothing, and a handler whose loop ended that way has
\* printed no error line and is in its cleanup or Closed.
C7_CleanClose ==
    /\ [](\A c \in Clients :
             hexit[c] = "eof" =>
                herr[c] = "none" /\ hpc[c] \in {"cleanup", "closed"})
    /\ [][ \A c \in Clients :
              ZeroByteHeaderRead(c) =>
                 /\ hexit'[c] = "eof"
                 /\ ~connected'[c]
                 /\ hpc'[c] = "cleanup"
                 /\ herr'[c] = "none"
                 /\ acks'[c] = acks[c]
                 /\ s2c'[c] = s2c[c] ]_vars

\* A handler whose header read returned no bytes has closed its connection,
\* after it had acknowledged a message.
C7_Witness ==
    \E c \in Clients :
       hexit[c] = "eof" /\ hpc[c] = "closed" /\ acks[c] >= 1

\* C8: bytes read as a header that are not a non-negative decimal integer,
\* padding trimmed, give the invalid-header outcome and no payload read:
\* the handler goes on to read a payload only when the header text is a
\* non-negative decimal integer.
C8_InvalidHeaderRejected ==
    \A c \in Clients :
       (hpc[c] = "payload" /\ msg_length[c] >= 0) =>
          PlainDecimal(msg_length_header[c])

\* C9: for a payload whose byte length has a decimal representation longer
\* than the header width, encoding the frame fails and nothing is sent: no
\* frame of it is recorded as sent and no byte of it is on the connection.
C9_OversizeNotSent ==
    \A c \in Clients :
       ~FitsHeader(message[c]) => sent[c] = <<>> /\ c2s[c] = <<>>

\* C10: round trip.  For a payload whose byte length fits the header, the
\* header the client writes is exactly HEADER bytes, decimal digits
\* left-aligned and padded with spaces on the right; the handler's decoding
\* of that header is the payload's byte length; and the payload the handler
\* decodes is the text that was sent, with no error on the way.
C10_RoundTrip ==
    \A c \in Clients :
       (message[c] # <<>> /\ FitsHeader(message[c])) =>
          /\ (cpc[c] = "send_message" /\ hdr_reads[c] = 0) =>
                /\ Len(c2s[c]) = HEADER
                /\ LeftAlignedDecimal(c2s[c])
          /\ hpc[c] = "payload" => msg_length[c] = Len(Encode(message[c]))
          /\ hpc[c] = "ack" => msg[c] = message[c] /\ log[c] = <<message[c]>>
          /\ herr[c] = "none"

\* A non-ASCII payload, byte length above its length, has made the trip.
C10_Witness ==
    \E c \in Clients :
       /\ FitsHeader(message[c])
       /\ Len(Encode(message[c])) > Len(message[c])
       /\ hpc[c] = "ack"
       /\ msg[c] = message[c]
       /\ msg_length[c] = 2 * Len(message[c])

\* The client's interactive loop has been left: by a break (cleanup or
\* closed), or by an error raised in it that ended the program.
LoopExited(c) ==
    \/ cpc[c] \in {"cleanup", "closed"}
    \/ cpc[c] = "died" /\ creport[c] = "traceback"

\* C11: on every exit of the client's interactive loop, an error raised
\* while reading the operator's input included, the client closes its
\* connection exactly once: client.close() is never called twice, it has
\* been called once when the program has ended, and a program that ended on
\* an error has called it too.
C11_ClientClosedOnce ==
    \A c \in Clients :
       kind[c] = "client" =>
          /\ ccloses[c] <= 1
          /\ cpc[c] = "closed" => ccloses[c] = 1
          /\ (LoopExited(c) /\ cpc[c] # "cleanup") => ccloses[c] = 1

\* The client's next send or receive meets a lost connection: the server's
\* end has been reset, or it has been closed and the read of the response
\* finds no bytes.
LostSeen(c) ==
    \/ cpc[c] \in {"send_header", "send_message", "recv"} /\ conn_end[c] = "rst"
    \/ cpc[c] = "recv" /\ conn_end[c] = "fin" /\ s2c[c] = <<>>

\* C12: when the connection is lost while the client sends a frame or waits
\* for the acknowledgment (reset, broken pipe, or a response read of zero
\* bytes), the client reports it, leaves its loop without sending another
\* frame, and closes: the client's step that meets the lost connection
\* prints the lost-connection error and goes to the cleanup with nothing
\* more written, and a client that has reported the loss is in its cleanup
\* or has closed, once.
C12_LostConnection ==
    /\ [](\A c \in Clients :
             creport[c] = "lost" =>
                /\ cpc[c] \in {"cleanup", "closed"}
                /\ cpc[c] = "closed" => ccloses[c] = 1)
    /\ [][ \A c \in Clients :
              ( /\ kind[c] = "client"
                /\ LostSeen(c)
                /\ cpc'[c] # cpc[c]
                /\ cpc'[c] # "died" )
              => /\ creport'[c] = "lost"
                 /\ cpc'[c] = "cleanup"
                 /\ sent'[c] = sent[c]
                 /\ c2s'[c] = c2s[c] ]_vars

\* The last frame the client has written is the disconnect command.
SentinelSent(c) == sent[c] # <<>> /\ Last(sent[c]) = MSG_DISCONNECT

\* C13: after the client has sent '!Disconnect' its loop ends with no other
\* line read and no other frame sent, whether send() returned success or
\* the lost-connection signal, and its socket then ends closed.  The
\* disconnect command is only ever the last frame sent, and the client is
\* then finishing that exchange, in its cleanup, or closed; no step after it
\* reads a line or writes a frame; and the client does reach the close,
\* once.
C13_SentinelEndsLoop ==
    /\ [](\A c \in Clients :
             /\ \A i \in 1..Len(sent[c]) :
                   sent[c][i] = MSG_DISCONNECT => i = Len(sent[c])
             /\ SentinelSent(c) =>
                   /\ message[c] = MSG_DISCONNECT
                   /\ cpc[c] \in {"send_message", "recv", "cleanup", "closed"}
                   /\ cpc[c] = "closed" => ccloses[c] = 1)
    /\ [][ \A c \in Clients :
              SentinelSent(c) =>
                 nlines'[c] = nlines[c] /\ sent'[c] = sent[c] ]_vars
    /\ \A c \in Clients : SentinelSent(c) ~> (cpc[c] = "closed")

\* Two clients have sent the disconnect command and closed, one after the
\* acknowledgment and one after the lost-connection signal.
C13_Witness ==
    \E c, d \in Clients :
       /\ SentinelSent(c) /\ cpc[c] = "closed" /\ ccloses[c] = 1
       /\ responses[c] = <<ACK_TEXT>>
       /\ SentinelSent(d) /\ cpc[d] = "closed" /\ ccloses[d] = 1
       /\ creport[d] = "lost"

\* server.bind(ADDR) has failed.
BindFailed == lpc = "crashed"

\* C14: when binding the listening address fails, the server reports a
\* StartupError, closes the listening socket and does nothing more: it never
\* listens or accepts.
C14_BindFailure ==
    BindFailed =>
       /\ lreport = "startup_error"
       /\ lsock = "closed"
       /\ backlog = <<>>
       /\ \A c \in Clients : hpc[c] = "none"

\* The listener is in start(): at listen, at accept, or launching a handler.
InStart == lpc \in {"start", "accept", "spawn"}

\* C15: whenever the accept loop ends, by any error raised from listen,
\* accept or the launch of a handler, the listening socket is closed before
\* start() returns, and it is never left open once the listener has stopped
\* accepting: the step that leaves start() closes the socket and prints a
\* report, a listener that has stopped has its socket closed, and a socket
\* that listens has its listener at accept or launching a handler.
C15_ListenerCloses ==
    /\ [](lpc = "stopped" => lsock = "closed" /\ lreport # "none")
    /\ [](lsock = "listening" => lpc \in {"accept", "spawn"})
    /\ [][ (InStart /\ ~InStart') =>
              lpc' = "stopped" /\ lsock' = "closed" ]_vars

\* The listener has stopped on a handler that could not be launched, after
\* it had launched another, and the listening socket is closed.
C15_Witness ==
    /\ lpc = "stopped"
    /\ lreport = "unexpected"
    /\ lsock = "closed"
    /\ \E c \in Clients : hpc[c] # "none"

\* Handler c is blocked in its first header read on a peer that has sent
\* nothing and has not closed.
BlockedOnSilentPeer(c) ==
    /\ hpc[c] = "header"
    /\ hdr_reads[c] = 0
    /\ c2s[c] = <<>>
    /\ peer_end[c] = "open"
    /\ cpc[c] = "raw"

\* C16: the listener launches a handler for each accepted connection and
\* goes back to accept without waiting for it.  The listener stands at the
\* launch only for a connection whose handler has not run yet; the launch
\* takes it back to accept with the handler at its first read, nothing
\* acknowledged and nothing closed; and at accept with a connection pending
\* it can always accept, whatever the handlers are doing.
C16_FireAndForget ==
    /\ [](lpc = "spawn" => aconn \in Clients /\ hpc[aconn] = "none")
    /\ [](lpc = "accept" /\ backlog # <<>> => ENABLED start_accept)
    /\ [][ (lpc = "spawn" /\ lpc' = "accept") =>
              /\ hpc'[aconn] = "header"
              /\ connected'[aconn]
              /\ acks'[aconn] = 0
              /\ hcloses'[aconn] = 0
              /\ \A c \in Clients \ {aconn} : hpc'[c] = hpc[c] ]_vars

\* The handler of the connection accepted first is still blocked on a silent
\* peer; the listener has accepted a second connection since, whose handler
\* has decoded and acknowledged a message that its client has received; and
\* the listener is back at accept.
C16_Witness ==
    \E c, d \in Clients :
       /\ accepted = <<c, d>>
       /\ BlockedOnSilentPeer(c)
       /\ log[d] = sent[d] /\ acks[d] = 1
       /\ responses[d] = <<ACK_TEXT>>
       /\ lpc = "accept"

\* The step is handler c's send of the acknowledgment, and the send fails.
AckSendFails(c) ==
    /\ hpc[c] = "ack"
    /\ hpc'[c] # "ack"
    /\ peer_end[c] = "rst"

\* C17: a failed send of the acknowledgment takes the handler straight to
\* Closing: the failure is caught in the handler (its error line is printed,
\* its loop flag cleared), nothing is read or sent after it, nothing outside
\* the handler changes, and the connection is then closed once.
C17_AckFailureCloses ==
    /\ [][ \A c \in Clients :
              AckSendFails(c) =>
                 /\ hpc'[c] = "cleanup"
                 /\ ~connected'[c]
                 /\ herr'[c] \in {"reset", "unexpected"}
                 /\ acks'[c] = acks[c]
                 /\ s2c'[c] = s2c[c]
                 /\ lvars' = lvars ]_vars
    /\ [][ \A c \in Clients :
              (hpc[c] = "cleanup" /\ hpc'[c] # "cleanup") =>
                 /\ hpc'[c] = "closed"
                 /\ hcloses'[c] = hcloses[c] + 1
                 /\ hdr_reads'[c] = hdr_reads[c]
                 /\ c2s'[c] = c2s[c]
                 /\ acks'[c] = acks[c] ]_vars
    /\ [](\A c \in Clients : hpc[c] \in {"none", "cleanup", "closed"} \cup Active)

\* A handler has decoded a message, failed to send its acknowledgment, and
\* closed its connection once.
C17_Witness ==
    \E c \in Clients :
       /\ hpc[c] = "closed"
       /\ hcloses[c] = 1
       /\ herr[c] \in {"reset", "unexpected"}
       /\ log[c] # <<>>
       /\ acks[c] = Len(log[c]) - 1

\* The step is client c's input() returning a line.
LineRead(c) == cpc[c] = "input" /\ nlines'[c] = nlines[c] + 1

\* C18: an empty line of input is ignored, and every other line gives one
\* frame and one read of the response.  The step that reads an empty line
\* leaves the client at the prompt and changes nothing of the connection, of
\* what was sent or received, or of the handlers; the step that reads
\* another line takes the client to send().  No frame has an empty payload,
\* there are no more frames than lines read, and the client has read one
\* response per frame, less one while the exchange is in progress.
C18_EmptyInputIgnored ==
    /\ [][ \A c \in Clients :
              LineRead(c) =>
                 IF message'[c] = <<>>
                 THEN /\ cpc'[c] = "input"
                      /\ nvars' = nvars
                      /\ sent' = sent
                      /\ responses' = responses
                      /\ hvars' = hvars
                 ELSE cpc'[c] = "send_header" ]_vars
    /\ [](\A c \in Clients :
             /\ \A i \in 1..Len(sent[c]) : sent[c][i] # <<>>
             /\ Len(sent[c]) <= nlines[c]
             /\ cpc[c] \in {"input", "send_header"} =>
                   Len(responses[c]) = Len(sent[c])
             /\ cpc[c] = "send_header" => message[c] # <<>>
             /\ cpc[c] \in {"send_message", "recv"} =>
                   /\ Len(sent[c]) = Len(responses[c]) + 1
                   /\ Last(sent[c]) = message[c])

\* A client has sent a line and received its acknowledgment, and has then
\* read an empty line: it is at the prompt, with one frame sent and one
\* response read, on a connection that is still open.
C18_Witness ==
    \E c \in Clients :
       /\ nlines[c] = 2
       /\ message[c] = <<>>
       /\ cpc[c] = "input"
       /\ Len(sent[c]) = 1
       /\ responses[c] = <<ACK_TEXT>>
       /\ peer_end[c] = "open" /\ conn_end[c] = "open"

\* Handler c has left its loop on a failed send of an acknowledgment.
AckFailed(c) ==
    /\ hpc[c] \in {"cleanup", "closed"}
    /\ herr[c] \in {"reset", "unexpected"}

\* C19: the handler acknowledges the frame of the disconnect command too,
\* after it has cleared its loop flag and before it closes; so it has sent
\* as many acknowledgments as it has decoded frames, less at most the one in
\* progress.  The counts differ by at most one, and only while the handler
\* is about to send the acknowledgment or after that send has failed; at
\* that point nothing is closed, and for the disconnect command the loop
\* flag is already cleared; and the step that sends the acknowledgment of
\* the disconnect command counts it, writes it to the connection and goes to
\* the cleanup.
C19_SentinelAcked ==
    /\ [](\A c \in Clients :
             /\ acks[c] <= Len(log[c])
             /\ Len(log[c]) <= acks[c] + 1
             /\ acks[c] < Len(log[c]) => hpc[c] = "ack" \/ AckFailed(c)
             /\ hpc[c] = "ack" =>
                   /\ Len(log[c]) = acks[c] + 1
                   /\ hcloses[c] = 0
                   /\ msg[c] = MSG_DISCONNECT =>
                         ~connected[c] /\ hexit[c] = "sentinel")
    /\ [][ \A c \in Clients :
              ( /\ hpc[c] = "ack"
                /\ msg[c] = MSG_DISCONNECT
                /\ hpc'[c] # "ack"
                /\ peer_end[c] # "rst" )
              => /\ acks'[c] = acks[c] + 1
                 /\ hpc'[c] = "cleanup"
                 /\ hcloses'[c] = 0
                 /\ peer_end[c] = "open" =>
                       s2c'[c] = s2c[c] \o Encode(ACK_TEXT) ]_vars

\* A handler has decoded a message and then the disconnect command, has sent
\* two acknowledgments and closed; its client has received both.
C19_Witness ==
    \E c \in Clients :
       /\ hexit[c] = "sentinel"
       /\ hpc[c] = "closed"
       /\ Len(log[c]) = 2
       /\ log[c][2] = MSG_DISCONNECT
       /\ acks[c] = 2
       /\ responses[c] = <<ACK_TEXT, ACK_TEXT>>

\* The step ends the accept loop.
ListenerAborts == lpc # "stopped" /\ lpc' = "stopped"

\* C20: when an error ends the accept loop after handlers have been started,
\* the listener closes the listening socket only, and the running handlers
\* go on until their own close condition.  The step that ends the loop
\* changes nothing of any handler nor of any connection that has a handler;
\* once the listener has stopped, a handler with an acknowledgment to send
\* or with its cleanup to do can take that step; and the
\* server's end of a connection that has a handler is closed only by that
\* handler's cleanup, after its own loop has ended.
C20_HandlersSurvive ==
    /\ [][ ListenerAborts =>
              /\ hvars' = hvars
              /\ c2s' = c2s /\ s2c' = s2c /\ peer_end' = peer_end
              /\ \A c \in Clients :
                    hpc[c] # "none" => conn_end'[c] = conn_end[c] ]_vars
    /\ [](lpc = "stopped" =>
             \A c \in Clients :
                /\ hpc[c] = "ack" => ENABLED handle_client_ack(c)
                /\ hpc[c] = "cleanup" => ENABLED handle_client_close(c))
    /\ [][ \A c \in Clients :
              ( /\ hpc[c] # "none"
                /\ conn_end[c] = "open"
                /\ conn_end'[c] # "open" )
              => /\ hpc[c] = "cleanup" /\ hpc'[c] = "closed"
                 /\ hexit[c] # "none" ]_vars

\* The listener has stopped on an error; a handler it had started before,
\* which had acknowledged nothing by then, has since decoded and acknowledged
\* two messages of its client and is still in its loop, its connection open.
C20_Witness ==
    \E c \in Clients :
       /\ lpc = "stopped"
       /\ lsock = "closed"
       /\ stop_acks[c] = 0
       /\ acks[c] = 2
       /\ log[c] = sent[c]
       /\ responses[c] = <<ACK_TEXT, ACK_TEXT>>
       /\ hpc[c] = "header" /\ connected[c]
       /\ conn_end[c] = "open"

====
